---- MODULE Spec2Model ----
(***************************************************************************)
(* A model of the document pretty-printer of src/src/main.rs: the document *)
(* algebra (FormatElement and its constructors), flatten, group, the       *)
(* layout engine (fit_document, fit_documents, pick_better_fit, fits), the *)
(* renderer (print_fitted_document), pretty, the JSON producer             *)
(* (From<JsonValue>), main and raw_test.                                   *)
(*                                                                         *)
(* A FormatElement is a record tagged by "type"; a FittedDocument, a       *)
(* chain of Text and Line cells ending in Empty, is the sequence of its    *)
(* cells (Empty is <<>>). Strings are TLA+ strings: s.len() is Len(s) and  *)
(* format!("{}{}", a, b) is a \o b.                                        *)
(*                                                                         *)
(* width - chars_left in pick_better_fit is a usize subtraction. When      *)
(* chars_left > width the outcome depends on the build: with overflow      *)
(* checks (the default of a debug build) it panics, without them (the      *)
(* default of a release build) it wraps. The build is the variable         *)
(* overflow_checks, chosen in Init, and both outcomes are modelled.        *)
(***************************************************************************)
EXTENDS Integers, Sequences, FiniteSets, TLC

VARIABLES
    overflow_checks,  \* the build: TRUE panics on usize underflow, FALSE wraps
    stack,            \* the documents a producer has built so far, innermost last
    pc,               \* "build": constructing; "fit": in fit_documents; "pick": in
                      \* pick_better_fit; "done": the layout has returned or panicked
    width,            \* the width of the last layout call
    fitted,           \* the outcome of the last fit_document call
    placed,           \* chars_placed of the running fit_documents call
    documents,        \* the work list of the running fit_documents call, top last
    calls,            \* the pending calls of the layout, outermost first
    ret,              \* the FittedDocument x_thunk() returned to pick_better_fit
    wrapped,          \* whether a subtraction of the running layout wrapped
    output,           \* the string print_fitted_document returned for it
    prev              \* the pretty call made before the last one on the same document

vars == <<overflow_checks, stack, pc, width, placed, documents, calls, ret,
          wrapped, fitted, output, prev>>

(***************************************************************************)
(* Bounds of the model.                                                    *)
(***************************************************************************)
\* Nodes of the documents on the stack, a Union counting as one node above its full alternative.
MaxNodes == 4
\* Longest Vec handed to concat.
MaxList == 2
\* Largest width of a pretty call on a built document.
MaxWidth == 3
\* Largest width of a layout call on a sequence of groups.
MaxSeqWidth == 4
\* Largest width of a layout call on the documents of raw_test and of main.
MaxRawWidth == 200
MaxMainWidth == 150

\* The strings handed to text() and the offsets handed to nest() by the modelled producer.
Strings == {"a", "bb"}
Offsets == {1, 2}

(***************************************************************************)
(* usize. Its width depends on the target (16, 32 or 64 bits); the model   *)
(* takes 16, the narrowest, which the model checker's integers can hold.   *)
(* Every column of the model is far below 2^16, so a wrapped budget        *)
(* exceeds every text length, as it does for 32 and 64 bits.               *)
(***************************************************************************)
UsizeBits == 16
UsizeModulus == 2 ^ UsizeBits

\* a - b on usize: [panic, wrapped, value].
usize_sub(a, b) ==
    IF a >= b THEN [panic |-> FALSE, wrapped |-> FALSE, value |-> a - b]
    ELSE IF overflow_checks THEN [panic |-> TRUE, wrapped |-> FALSE, value |-> 0]
    ELSE [panic |-> FALSE, wrapped |-> TRUE, value |-> (a - b) % UsizeModulus]

saturating_sub(a, b) == IF a > b THEN a - b ELSE 0

(***************************************************************************)
(* FormatElement and the helper functions creating documents.              *)
(***************************************************************************)
Union(x, y) == [type |-> "Union", x |-> x, y |-> y]

empty == [type |-> "Empty"]

concat(docs) == [type |-> "List", docs |-> docs]

nest(indent, x) == [type |-> "Indent", offset |-> indent, x |-> x]

text(s) == [type |-> "Token", s |-> s]

literal(s) == [type |-> "Token", s |-> s]

line_or_space == [type |-> "LineOrSpace"]

line_or_empty == [type |-> "LineOrEmpty"]

RECURSIVE flatten_keeps_full(_)
\* flatten with the Union arm returning the full alternative as it is.
flatten_keeps_full(x) ==
    CASE x.type \in {"Empty", "Token"} -> x
      [] x.type = "List" -> concat([i \in DOMAIN x.docs |-> flatten_keeps_full(x.docs[i])])
      [] x.type = "Indent" -> nest(x.offset, flatten_keeps_full(x.x))
      [] x.type = "LineOrSpace" -> text(" ")
      [] x.type = "LineOrEmpty" -> empty
      [] x.type = "Union" -> x.y

RECURSIVE flatten(_)
flatten(x) ==
    CASE x.type \in {"Empty", "Token"} -> x
      [] x.type = "List" -> concat([i \in DOMAIN x.docs |-> flatten(x.docs[i])])
      [] x.type = "Indent" -> nest(x.offset, flatten(x.x))
      [] x.type = "LineOrSpace" -> text(" ")
      [] x.type = "LineOrEmpty" -> empty
      [] x.type = "Union" -> flatten(x.x)

group(x) == Union(flatten(x), x)

(***************************************************************************)
(* FittedDocument and the renderer.                                        *)
(***************************************************************************)
FittedEmpty == <<>>
FittedText(s, x) == <<[type |-> "Text", s |-> s]>> \o x
FittedLine(offset, x) == <<[type |-> "Line", offset |-> offset]>> \o x

RECURSIVE repeat(_, _)
\* s.repeat(n)
repeat(s, n) == IF n = 0 THEN "" ELSE s \o repeat(s, n - 1)

\* print_fitted_document with the string built so far carried along: the
\* recursion of the source returns s ++ print(rest), which is printed ++ s ++ print(rest) here.
RECURSIVE print_onto(_, _)
print_onto(printed, x) ==
    CASE x = FittedEmpty -> printed
      [] x # FittedEmpty /\ Head(x).type = "Text" -> print_onto(printed \o Head(x).s, Tail(x))
      [] OTHER -> print_onto(printed \o "\n" \o repeat(" ", Head(x).offset), Tail(x))

print_fitted_document(x) == print_onto("", x)

(***************************************************************************)
(* The layout engine.                                                      *)
(***************************************************************************)
RECURSIVE fits_forgets_text(_, _)
\* fits with the Text arm passing the budget on without subtracting the text.
fits_forgets_text(self, w) ==
    CASE w = 0 -> FALSE
      [] w # 0 /\ self = FittedEmpty -> TRUE
      [] w # 0 /\ self # FittedEmpty /\ Head(self).type = "Text" -> fits_forgets_text(Tail(self), w)
      [] OTHER -> TRUE

RECURSIVE fits(_, _)
fits(self, w) ==
    CASE w = 0 -> FALSE
      [] w # 0 /\ self = FittedEmpty -> TRUE
      [] w # 0 /\ self # FittedEmpty /\ Head(self).type = "Text" ->
            fits(Tail(self), saturating_sub(w, Len(Head(self).s)))
      [] OTHER -> TRUE

\* documents.push(..) for doc in docs.iter().rev()
RECURSIVE push_rev(_, _, _)
push_rev(work, indent, docs) ==
    IF docs = <<>> THEN work
    ELSE push_rev(Append(work, <<indent, docs[Len(docs)]>>), indent, SubSeq(docs, 1, Len(docs) - 1))

\* nested_indent with the enclosing indent dropped.
nested_indent_forgets(indent, offset) == offset

\* The indent of the child of Indent(offset, x).
nested_indent(indent, offset) == indent + offset

(***************************************************************************)
(* fit_documents recurses once per element of the work list, and a         *)
(* document of a few dozen nodes is deeper than a recursive operator can   *)
(* be evaluated, so the recursion is run with its call stack in the state: *)
(* `documents` and `placed` are the arguments of the running call and      *)
(* `calls` the pending ones, outermost first. A pending call is            *)
(*   TextCall(s):  FittedDocument::Text(s, Box::new(<running>))            *)
(*   LineCall(i):  FittedDocument::Line(i, Box::new(<running>))            *)
(*   PickCall(chars_left, right_documents): pick_better_fit waiting for    *)
(*       x_thunk(), with what y_thunk captured.                            *)
(* Empty, List and Indent recurse in tail position and leave no call.      *)
(***************************************************************************)
TextCall(s) == [kind |-> "Text", s |-> s]
LineCall(indent) == [kind |-> "Line", indent |-> indent]
PickCall(chars_left, right_documents) ==
    [kind |-> "pick", chars_left |-> chars_left, right_documents |-> right_documents]

\* One call of fit_documents(width, col, work) on a non-empty work list: the arguments
\* of the call it makes next and the pending calls.
fit_documents(col, work, pending) ==
    LET indent == work[Len(work)][1]
        doc == work[Len(work)][2]
        popped == SubSeq(work, 1, Len(work) - 1)
    IN CASE doc.type = "Empty" ->
              [placed |-> col, documents |-> popped, calls |-> pending]
         [] doc.type = "List" ->
              [placed |-> col, documents |-> push_rev(popped, indent, doc.docs), calls |-> pending]
         [] doc.type = "Indent" ->
              [placed |-> col,
               documents |-> Append(popped, <<nested_indent(indent, doc.offset), doc.x>>),
               calls |-> pending]
         [] doc.type = "Token" ->
              [placed |-> col + Len(doc.s), documents |-> popped,
               calls |-> Append(pending, TextCall(doc.s))]
         [] doc.type \in {"LineOrSpace", "LineOrEmpty"} ->
              [placed |-> indent, documents |-> popped, calls |-> Append(pending, LineCall(indent))]
         [] doc.type = "Union" ->
              [placed |-> col,
               documents |-> Append(popped, <<indent, doc.x>>),
               calls |-> Append(pending, PickCall(col, Append(popped, <<indent, doc.y>>)))]

\* The innermost pending pick_better_fit (0: none).
InnermostPick(pending) ==
    LET P == {i \in DOMAIN pending : pending[i].kind = "pick"}
    IN IF P = {} THEN 0 ELSE CHOOSE i \in P : \A j \in P : j <= i

\* What the pending Text and Line constructions above call p make of the value x returned to them.
Boxed(pending, p, x) ==
    [i \in 1..(Len(pending) - p) |->
        IF pending[p + i].kind = "Text"
        THEN [type |-> "Text", s |-> pending[p + i].s]
        ELSE [type |-> "Line", offset |-> pending[p + i].indent]] \o x

\* better_fit_is_x with the test inverted.
better_fit_is_y(w, chars_left, x) ==
    LET budget == usize_sub(w, chars_left)
    IN [panic |-> budget.panic, wrapped |-> budget.wrapped,
        keep |-> ~budget.panic /\ ~fits(x, budget.value)]

\* Whether pick_better_fit keeps x: [panic, wrapped, keep].
better_fit_is_x(w, chars_left, x) ==
    LET budget == usize_sub(w, chars_left)
    IN [panic |-> budget.panic, wrapped |-> budget.wrapped,
        keep |-> ~budget.panic /\ fits(x, budget.value)]

(***************************************************************************)
(* The state machine: a producer builds documents with the constructors,   *)
(* then the finished document is laid out and printed.                     *)
(***************************************************************************)
RECURSIVE Size(_)
Size(x) ==
    CASE x.type = "List" ->
            IF x.docs = <<>> THEN 1 ELSE Size(x.docs[1]) + Size(concat(Tail(x.docs)))
      [] x.type = "Indent" -> 1 + Size(x.x)
      [] x.type = "Union" -> 1 + Size(x.y)
      [] OTHER -> 1

RECURSIVE StackSize(_)
StackSize(s) == IF s = <<>> THEN 0 ELSE Size(Head(s)) + StackSize(Tail(s))

NoRun == [width |-> 0, panic |-> TRUE, wrapped |-> FALSE, output |-> ""]
NoOutcome == [panic |-> TRUE, wrapped |-> FALSE, doc |-> FittedEmpty]

Push(x) ==
    /\ pc = "build"
    /\ StackSize(stack) < MaxNodes
    /\ stack' = Append(stack, x)
    /\ UNCHANGED <<overflow_checks, pc, width, placed, documents, calls, ret,
                   wrapped, fitted, output, prev>>

CallEmpty == Push(empty)
CallText == \E s \in Strings : Push(text(s))
CallLineOrSpace == Push(line_or_space)
CallLineOrEmpty == Push(line_or_empty)

CallConcat ==
    \E n \in 0..MaxList :
        /\ pc = "build"
        /\ n <= Len(stack)
        /\ StackSize(stack) < MaxNodes
        /\ stack' = Append(SubSeq(stack, 1, Len(stack) - n),
                           concat(SubSeq(stack, Len(stack) - n + 1, Len(stack))))
        /\ UNCHANGED <<overflow_checks, pc, width, placed, documents, calls, ret,
                       wrapped, fitted, output, prev>>

CallNest ==
    \E indent \in Offsets :
        /\ pc = "build"
        /\ stack # <<>>
        /\ StackSize(stack) < MaxNodes
        /\ stack' = [stack EXCEPT ![Len(stack)] = nest(indent, @)]
        /\ UNCHANGED <<overflow_checks, pc, width, placed, documents, calls, ret,
                       wrapped, fitted, output, prev>>

CallGroup ==
    /\ pc = "build"
    /\ stack # <<>>
    /\ StackSize(stack) < MaxNodes
    /\ stack' = [stack EXCEPT ![Len(stack)] = group(@)]
    /\ UNCHANGED <<overflow_checks, pc, width, placed, documents, calls, ret,
                   wrapped, fitted, output, prev>>

\* fit_document(w, start, document): fit_documents(w, start, vec![(0, document)]).
fit_document(w, start) ==
    /\ Len(stack) = 1
    /\ width' = w
    /\ placed' = start
    /\ documents' = <<<<0, stack[1]>>>>
    /\ calls' = <<>>
    /\ ret' = FittedEmpty
    /\ wrapped' = FALSE
    /\ fitted' = NoOutcome
    /\ output' = ""
    /\ pc' = "fit"
    /\ UNCHANGED <<overflow_checks, stack>>

\* pretty(w, document)
pretty(maxw) ==
    \E w \in 0..maxw :
        /\ pc = "build"
        /\ fit_document(w, 0)
        /\ UNCHANGED prev

\* A second pretty call on the same document at a larger width, as main makes them.
PrettyWider(maxw) ==
    \E w \in (width + 1)..maxw :
        /\ pc = "done"
        /\ prev = NoRun
        /\ prev' = [width |-> width, panic |-> fitted.panic, wrapped |-> fitted.wrapped,
                    output |-> output]
        /\ fit_document(w, 0)

\* A call returns x to the pending calls: through the Text and Line constructions to the
\* innermost pick_better_fit, or out of fit_document to print_fitted_document.
ReturnTo(pending, x, wr) ==
    LET p == InnermostPick(pending)
        v == Boxed(pending, p, x)
    IN IF p = 0
       THEN /\ pc' = "done"
            /\ calls' = <<>>
            /\ ret' = FittedEmpty
            /\ fitted' = [panic |-> FALSE, wrapped |-> wr, doc |-> v]
            /\ output' = print_fitted_document(v)
       ELSE /\ pc' = "pick"
            /\ calls' = SubSeq(pending, 1, p)
            /\ ret' = v
            /\ UNCHANGED <<fitted, output>>

\* The running fit_documents call, on a non-empty work list.
FitDocuments ==
    /\ pc = "fit"
    /\ documents # <<>>
    /\ LET next == fit_documents(placed, documents, calls) IN
          /\ placed' = next.placed
          /\ documents' = next.documents
          /\ calls' = next.calls
    /\ UNCHANGED <<overflow_checks, stack, pc, width, ret, wrapped, fitted,
                   output, prev>>

\* The running fit_documents call, on the empty work list: FittedDocument::Empty.
FitDocumentsEmpty ==
    /\ pc = "fit"
    /\ documents = <<>>
    /\ ReturnTo(calls, FittedEmpty, wrapped)
    /\ UNCHANGED <<overflow_checks, stack, width, placed, documents, wrapped, prev>>

\* pick_better_fit once x_thunk() has returned ret: it panics, returns x, or returns
\* what y_thunk() returns.
PickBetterFit ==
    /\ pc = "pick"
    /\ LET call == calls[Len(calls)]
           callers == SubSeq(calls, 1, Len(calls) - 1)
           better == better_fit_is_x(width, call.chars_left, ret)
       IN /\ wrapped' = (wrapped \/ better.wrapped)
          /\ IF better.panic
             THEN /\ pc' = "done"
                  /\ fitted' = [panic |-> TRUE, wrapped |-> wrapped, doc |-> FittedEmpty]
                  /\ calls' = <<>>
                  /\ ret' = FittedEmpty
                  /\ UNCHANGED <<placed, documents, output>>
             ELSE IF better.keep
             THEN /\ ReturnTo(callers, ret, wrapped \/ better.wrapped)
                  /\ UNCHANGED <<placed, documents>>
             ELSE /\ pc' = "fit"
                  /\ placed' = call.chars_left
                  /\ documents' = call.right_documents
                  /\ calls' = callers
                  /\ ret' = FittedEmpty
                  /\ UNCHANGED <<fitted, output>>
    /\ UNCHANGED <<overflow_checks, stack, width, prev>>

InitCommon ==
    /\ overflow_checks \in BOOLEAN
    /\ pc = "build"
    /\ width = 0
    /\ placed = 0
    /\ documents = <<>>
    /\ calls = <<>>
    /\ ret = FittedEmpty
    /\ wrapped = FALSE
    /\ fitted = NoOutcome
    /\ output = ""
    /\ prev = NoRun

Init ==
    /\ InitCommon
    /\ stack = <<>>

Next ==
    \/ CallEmpty
    \/ CallText
    \/ CallLineOrSpace
    \/ CallLineOrEmpty
    \/ CallConcat
    \/ CallNest
    \/ CallGroup
    \/ pretty(MaxWidth)
    \/ FitDocuments
    \/ FitDocumentsEmpty
    \/ PickBetterFit

Spec == Init /\ [][Next]_vars

(***************************************************************************)
(* A producer that emits one group, or two groups in sequence, over        *)
(* leaves: the documents on which a second, wider pretty call is compared  *)
(* with the first.                                                         *)
(***************************************************************************)
Leaves == {empty, line_or_space, line_or_empty} \cup {text(s) : s \in Strings}

SingleGroups ==
    {group(concat(<<a, b>>)) : a, b \in Leaves}
        \cup {group(nest(i, concat(<<a, b>>))) : i \in Offsets, a, b \in Leaves}

GroupSequences ==
    {concat(<<group(concat(<<a, b>>)), group(concat(<<c, d>>))>>) : a, b, c, d \in Leaves}

InitSeq ==
    /\ InitCommon
    /\ stack \in {<<x>> : x \in SingleGroups \cup GroupSequences}

NextSeq ==
    \/ pretty(MaxSeqWidth)
    \/ PrettyWider(MaxSeqWidth)
    \/ FitDocuments
    \/ FitDocumentsEmpty
    \/ PickBetterFit

SpecSeq == InitSeq /\ [][NextSeq]_vars

(***************************************************************************)
(* raw_test: the document it builds, laid out at the widths up to          *)
(* MaxRawWidth (the test uses 200 and 50).                                 *)
(***************************************************************************)
RawTestDoc ==
    group(concat(<<
        text("[1, 2, 3, 4, 5, 6, 7, 8, 9, 10, "),
        line_or_space,
        text("11, 12, 13, 14, 15, 16, 17, 18, 19, 20]")>>))

\* The right-hand sides of the two assert_eq! of raw_test.
RawTestExpected200 == "[1, 2, 3, 4, 5, 6, 7, 8, 9, 10, 11, 12, 13, 14, 15, 16, 17, 18, 19, 20]"
RawTestExpected50 == "[1, 2, 3, 4, 5, 6, 7, 8, 9, 10, \n11, 12, 13, 14, 15, 16, 17, 18, 19, 20]"

RawTestBuild ==
    /\ pc = "build"
    /\ stack = <<>>
    /\ stack' = <<RawTestDoc>>
    /\ UNCHANGED <<overflow_checks, pc, width, placed, documents, calls, ret,
                   wrapped, fitted, output, prev>>

NextRaw ==
    \/ RawTestBuild
    \/ pretty(MaxRawWidth)
    \/ FitDocuments
    \/ FitDocumentsEmpty
    \/ PickBetterFit

SpecRaw == Init /\ [][NextRaw]_vars

(***************************************************************************)
(* JsonValue, its conversion to a FormatElement, and the document of main. *)
(***************************************************************************)
JsonArray(entries) == [type |-> "Array", entries |-> entries]
JsonNumber(i) == [type |-> "Number", i |-> i]
JsonString(s) == [type |-> "String", s |-> s]
JsonObject(fields) == [type |-> "Object", fields |-> fields]

Digit(d) == <<"0", "1", "2", "3", "4", "5", "6", "7", "8", "9">>[d + 1]

RECURSIVE NatToString(_)
NatToString(n) == IF n < 10 THEN Digit(n) ELSE NatToString(n \div 10) \o Digit(n % 10)

\* i.to_string()
to_string(i) == IF i < 0 THEN "-" \o NatToString(-i) ELSE NatToString(i)

RECURSIVE From(_)
RECURSIVE ArrayEntries(_, _)
RECURSIVE ObjectFields(_, _)

\* The loop over entries from index idx on: what it pushes to entry_documents.
ArrayEntries(entries, idx) ==
    IF idx > Len(entries) THEN <<>>
    ELSE (IF idx = 1 THEN <<line_or_empty>> ELSE <<>>)
         \o <<From(entries[idx])>>
         \o (IF idx # Len(entries) THEN <<literal(","), line_or_space>> ELSE <<>>)
         \o ArrayEntries(entries, idx + 1)

\* The loop over fields from index idx on: what it pushes to object_documents.
ObjectFields(fields, idx) ==
    IF idx > Len(fields) THEN <<>>
    ELSE (IF idx = 1 THEN <<line_or_space>> ELSE <<>>)
         \o <<text(fields[idx][1]), literal(": "), From(fields[idx][2])>>
         \o (IF idx # Len(fields) THEN <<text(","), line_or_space>> ELSE <<>>)
         \o ObjectFields(fields, idx + 1)

From(value) ==
    CASE value.type = "Array" ->
            group(concat(<<text("["),
                           nest(2, concat(ArrayEntries(value.entries, 1))),
                           line_or_empty,
                           text("]")>>))
      [] value.type = "Number" -> text(to_string(value.i))
      [] value.type = "String" -> text("\"" \o value.s \o "\"")
      [] value.type = "Object" ->
            group(concat(<<literal("{"),
                           nest(2, concat(ObjectFields(value.fields, 1))),
                           line_or_space,
                           literal("}")>>))

MainJsonValue ==
    JsonArray(<<
        JsonObject(<<<<"Wong Kar Wai",
            JsonArray(<<JsonString("Chungking Express"),
                        JsonString("In the Mood for Love"),
                        JsonString("Happy Together")>>)>>>>),
        JsonObject(<<<<"Lucrecia Martel",
            JsonArray(<<JsonString("La Cienaga"),
                        JsonString("A Headless Woman"),
                        JsonString("Zama")>>)>>>>),
        JsonObject(<<<<"Olivier Assayas",
            JsonArray(<<JsonString("Summer Hours"),
                        JsonString("Irma Vep"),
                        JsonString("Clouds of Sils Maria")>>)>>>>)>>)

MainDocument == From(MainJsonValue)

MainBuild ==
    /\ pc = "build"
    /\ stack = <<>>
    /\ stack' = <<MainDocument>>
    /\ UNCHANGED <<overflow_checks, pc, width, placed, documents, calls, ret,
                   wrapped, fitted, output, prev>>

NextMain ==
    \/ MainBuild
    \/ pretty(MaxMainWidth)
    \/ FitDocuments
    \/ FitDocumentsEmpty
    \/ PickBetterFit

SpecMain == Init /\ [][NextMain]_vars

(***************************************************************************)
(* Definitions the properties are stated with. None of them is used by the *)
(* model of the program above.                                             *)
(***************************************************************************)
Finished == pc = "done"
Returns == pc = "done" /\ ~fitted.panic
Document == stack[1]

\* The number of "\n" in s[lo..hi], by halves.
RECURSIVE NewlinesIn(_, _, _)
NewlinesIn(s, lo, hi) ==
    IF lo > hi THEN 0
    ELSE IF lo = hi THEN (IF SubSeq(s, lo, lo) = "\n" THEN 1 ELSE 0)
    ELSE NewlinesIn(s, lo, (lo + hi) \div 2) + NewlinesIn(s, (lo + hi) \div 2 + 1, hi)

Newlines(s) == NewlinesIn(s, 1, Len(s))

Lines(fd) == {i \in DOMAIN fd : fd[i].type = "Line"}

\* The layout of x at indent `indent` that takes the full alternative of every Union nested
\* in fewer than `levels` Unions and the flat alternative of the others, by the structure
\* of x: the indent of a break is the sum of the offsets of the Nests around it.
RECURSIVE Resolved(_, _, _)
RECURSIVE ResolvedList(_, _, _, _, _)
ResolvedList(docs, lo, hi, indent, levels) ==
    IF lo > hi THEN <<>>
    ELSE IF lo = hi THEN Resolved(docs[lo], indent, levels)
    ELSE ResolvedList(docs, lo, (lo + hi) \div 2, indent, levels)
         \o ResolvedList(docs, (lo + hi) \div 2 + 1, hi, indent, levels)

Resolved(x, indent, levels) ==
    CASE x.type = "Empty" -> <<>>
      [] x.type = "Token" -> <<[type |-> "Text", s |-> x.s]>>
      [] x.type \in {"LineOrSpace", "LineOrEmpty"} -> <<[type |-> "Line", offset |-> indent]>>
      [] x.type = "Indent" -> Resolved(x.x, indent + x.offset, levels)
      [] x.type = "List" -> ResolvedList(x.docs, 1, Len(x.docs), indent, levels)
      [] x.type = "Union" ->
            IF levels > 0 THEN Resolved(x.y, indent, levels - 1) ELSE Resolved(x.x, indent, 0)

RECURSIVE UnionDepth(_)
UnionDepth(x) ==
    CASE x.type = "Indent" -> UnionDepth(x.x)
      [] x.type = "Union" -> 1 + UnionDepth(x.y)
      [] x.type = "List" ->
            IF x.docs = <<>> THEN 0
            ELSE LET a == UnionDepth(x.docs[1])
                     b == UnionDepth(concat(Tail(x.docs)))
                 IN IF a > b THEN a ELSE b
      [] OTHER -> 0

\* Every Union of x resolved to its full alternative.
Broken(x) == Resolved(x, 0, UnionDepth(x))

\* Every layout of x obtained by taking one alternative at each Union.
RECURSIVE Resolutions(_, _)
Resolutions(x, indent) ==
    CASE x.type = "Empty" -> {<<>>}
      [] x.type = "Token" -> {<<[type |-> "Text", s |-> x.s]>>}
      [] x.type \in {"LineOrSpace", "LineOrEmpty"} -> {<<[type |-> "Line", offset |-> indent]>>}
      [] x.type = "Indent" -> Resolutions(x.x, indent + x.offset)
      [] x.type = "List" ->
            IF x.docs = <<>> THEN {<<>>}
            ELSE {a \o b : a \in Resolutions(x.docs[1], indent),
                           b \in Resolutions(concat(Tail(x.docs)), indent)}
      [] x.type = "Union" -> Resolutions(x.x, indent) \cup Resolutions(x.y, indent)

\* What a cell prints as, and where the cells before cell i end in the output.
PieceLength(cell) == IF cell.type = "Text" THEN Len(cell.s) ELSE 1 + cell.offset

RECURSIVE EndOfCells(_, _)
EndOfCells(fd, n) == IF n = 0 THEN 0 ELSE EndOfCells(fd, n - 1) + PieceLength(fd[n])

\* out is fd printed: each Text as its string, each Line as a newline and exactly its
\* offset in spaces, in order and with nothing else.
PrintedAs(out, fd) ==
    /\ Len(out) = EndOfCells(fd, Len(fd))
    /\ \A i \in DOMAIN fd :
          LET at == EndOfCells(fd, i - 1) IN
          IF fd[i].type = "Text"
          THEN SubSeq(out, at + 1, at + Len(fd[i].s)) = fd[i].s
          ELSE /\ SubSeq(out, at + 1, at + 1) = "\n"
               /\ \A k \in 1..fd[i].offset : SubSeq(out, at + 1 + k, at + 1 + k) = " "

RECURSIVE NoUnion(_)
NoUnion(x) ==
    CASE x.type = "Union" -> FALSE
      [] x.type = "Indent" -> NoUnion(x.x)
      [] x.type = "List" -> \A i \in DOMAIN x.docs : NoUnion(x.docs[i])
      [] OTHER -> TRUE

\* The columns the flat document x takes.
RECURSIVE TextLength(_)
TextLength(x) ==
    CASE x.type = "Token" -> Len(x.s)
      [] x.type = "Indent" -> TextLength(x.x)
      [] x.type = "List" ->
            IF x.docs = <<>> THEN 0 ELSE TextLength(x.docs[1]) + TextLength(concat(Tail(x.docs)))
      [] x.type = "Union" -> TextLength(x.x)
      [] OTHER -> 0

\* The content of x in document order, one alternative (the full one) per Union.
RECURSIVE Content(_)
Content(x) ==
    CASE x.type = "Token" -> <<[kind |-> "token", s |-> x.s]>>
      [] x.type = "LineOrSpace" -> <<[kind |-> "space", s |-> " "]>>
      [] x.type = "LineOrEmpty" -> <<[kind |-> "empty", s |-> ""]>>
      [] x.type = "Indent" -> Content(x.x)
      [] x.type = "List" ->
            IF x.docs = <<>> THEN <<>> ELSE Content(x.docs[1]) \o Content(concat(Tail(x.docs)))
      [] x.type = "Union" -> Content(x.y)
      [] OTHER -> <<>>

\* fd holds exactly the items: each token once as its Text, each soft break once as a Line
\* or as its flat form (a Text " " for LineOrSpace, nothing for LineOrEmpty), in order.
RECURSIVE Holds(_, _)
Holds(fd, items) ==
    IF items = <<>> THEN fd = <<>>
    ELSE \/ /\ Head(items).kind = "token"
            /\ fd # <<>>
            /\ Head(fd) = [type |-> "Text", s |-> Head(items).s]
            /\ Holds(Tail(fd), Tail(items))
         \/ /\ Head(items).kind \in {"space", "empty"}
            /\ fd # <<>>
            /\ Head(fd).type = "Line"
            /\ Holds(Tail(fd), Tail(items))
         \/ /\ Head(items).kind = "space"
            /\ fd # <<>>
            /\ Head(fd) = [type |-> "Text", s |-> " "]
            /\ Holds(Tail(fd), Tail(items))
         \/ /\ Head(items).kind = "empty"
            /\ Holds(fd, Tail(items))

\* The feasibility test on a budget that may be negative: the texts up to the first Line
\* or the end leave more than nothing of the budget.
RECURSIVE FitsWithin(_, _)
FitsWithin(fd, budget) ==
    /\ budget > 0
    /\ \/ fd = <<>>
       \/ fd # <<>> /\ Head(fd).type = "Line"
       \/ fd # <<>> /\ Head(fd).type = "Text" /\ FitsWithin(Tail(fd), budget - Len(Head(fd).s))

EndsWith(fd, x) == Len(fd) >= Len(x) /\ SubSeq(fd, Len(fd) - Len(x) + 1, Len(fd)) = x

\* Text contents exchanged, the shape kept.
Other(s) == IF s = "a" THEN "bb" ELSE IF s = "bb" THEN "a" ELSE s

RECURSIVE Relabel(_)
Relabel(x) ==
    CASE x.type = "Token" -> text(Other(x.s))
      [] x.type = "Indent" -> nest(x.offset, Relabel(x.x))
      [] x.type = "List" -> concat([i \in DOMAIN x.docs |-> Relabel(x.docs[i])])
      [] x.type = "Union" -> Union(Relabel(x.x), Relabel(x.y))
      [] OTHER -> x

(***************************************************************************)
(* The properties.                                                         *)
(***************************************************************************)

\* C1 (as amended): for a document that is one group whose body holds no further group,
\* laid out by pretty from column 0, a second call at a larger width returns, as the first
\* did, and its output has no more newlines than the first's.
MonotoneSingleGroup ==
    (Finished /\ prev # NoRun /\ Document.type = "Union" /\ NoUnion(Document.y))
        => /\ ~prev.panic
           /\ ~fitted.panic
           /\ Newlines(output) <= Newlines(prev.output)

\* C1 witness: one group that the first width breaks and the larger width renders flat.
MonotoneSingleGroupWitness ==
    /\ Finished
    /\ prev # NoRun
    /\ Document.type = "Union"
    /\ NoUnion(Document.y)
    /\ ~prev.panic
    /\ ~fitted.panic
    /\ Newlines(prev.output) > 0
    /\ Newlines(output) = 0

\* C1 (as stated): for every document and widths w1 < w2, pretty(w2, d) has no more
\* newlines than pretty(w1, d); taken on the calls in which no subtraction underflowed.
WidthMonotone ==
    (Finished /\ prev # NoRun /\ ~prev.panic /\ ~prev.wrapped /\ ~fitted.panic /\ ~fitted.wrapped)
        => Newlines(output) <= Newlines(prev.output)

\* C2 (as stated): when the flattened rendering of a document group(d) is no longer than
\* the width less the column the group starts at, the layout is the flat one: it returns
\* no Line. Taken on a document that is a group, which pretty starts at column 0.
GreedySingleLine ==
    (Finished /\ Document.type = "Union"
        /\ TextLength(flatten(Document.y)) <= width)
        => Returns /\ Lines(fitted.doc) = {}

\* C3 (as stated): every layout returns, and no budget width - col underflows: none
\* panics and none wraps.
LayoutTotal == Finished => ~fitted.panic /\ ~fitted.wrapped

\* C4 (as stated): at width 0, pretty resolves every Union to its full alternative and
\* drops nothing: the result is the document with every group broken.
WidthZeroBreaksAll ==
    (Finished /\ width = 0)
        => Returns /\ fitted.doc = Broken(Document)

\* C5 (as stated): pretty(200, doc) of raw_test is the string of its first assert_eq!.
RawTestWide ==
    (Finished /\ width = 200) => Returns /\ output = RawTestExpected200

\* C6: every Line of the FittedDocument a layout returns carries the sum of the offsets
\* of the Nests around its break on the path taken (the layout is one of the structural
\* resolutions of the document), and the output is that FittedDocument printed with
\* exactly that many spaces after each newline.
IndentAdditive ==
    Returns => /\ fitted.doc \in Resolutions(Document, 0)
               /\ PrintedAs(output, fitted.doc)

\* C6 witness: Nest(a, Nest(b, break)) has been laid out, the break is indented a + b.
IndentAdditiveWitness ==
    /\ Returns
    /\ Document.type = "Indent"
    /\ Document.x.type = "Indent"
    /\ Document.x.x.type = "LineOrSpace"
    /\ fitted.doc = <<[type |-> "Line", offset |-> Document.offset + Document.x.offset]>>
    /\ Document.offset # Document.x.offset
    /\ output = "\n" \o repeat(" ", Document.offset + Document.x.offset)

\* C7 (as stated): for every document and width the layout returns a FittedDocument that
\* holds the document's tokens and soft breaks, each once and in order.
ContentPreserved == Finished => Returns /\ Holds(fitted.doc, Content(Document))

\* C8: flatten(flatten(d)) = flatten(d) for every document built, and flatten commutes
\* with a change of the text contents.
FlattenIdempotent ==
    \A i \in DOMAIN stack :
        /\ flatten(flatten(stack[i])) = flatten(stack[i])
        /\ flatten(Relabel(stack[i])) = Relabel(flatten(stack[i]))

\* C8 witness: group has flattened a document with a Union inside a Nest inside a Union.
FlattenIdempotentWitness ==
    \E i \in DOMAIN stack :
        /\ stack[i].type = "Union"
        /\ stack[i].y.type = "Indent"
        /\ stack[i].y.x.type = "Union"
        /\ stack[i].y.x.y.type = "LineOrSpace"
        /\ flatten(stack[i]) = nest(stack[i].y.offset, text(" "))

\* C9 (as amended): pretty(150, document) of main breaks the outermost array only, each
\* object inline on a line of its own (4 newlines); pretty(50, document) breaks every
\* array and every object (22 newlines).
MainOuterArrayBrokenAt150 ==
    /\ (Finished /\ width = 150)
          => /\ Returns
             /\ fitted.doc = Resolved(MainDocument, 0, 1)
             /\ Newlines(output) = 4
             /\ PrintedAs(output, fitted.doc)
    /\ (Finished /\ width = 50)
          => /\ Returns
             /\ fitted.doc = Broken(MainDocument)
             /\ Newlines(output) = 22
             /\ PrintedAs(output, fitted.doc)

\* C9 witness: pretty(150, document) has returned five lines.
MainOuterArrayBrokenAt150Witness ==
    /\ Returns
    /\ Document = MainDocument
    /\ width = 150
    /\ Newlines(output) = 4

\* C9 (as stated): pretty(150, document) has no newline, and pretty(50, document) breaks
\* every array and every object.
MainInlineAt150 ==
    /\ (Finished /\ width = 150) => Returns /\ Newlines(output) = 0
    /\ (Finished /\ width = 50) => Returns /\ fitted.doc = Broken(MainDocument)

\* C10 (as stated): at every Union, once the flat alternative has been resolved with the
\* whole remaining work list, pick_better_fit returns that resolution exactly when it
\* passes the feasibility test on the budget width - col, and otherwise goes on to resolve
\* the full alternative with the same remaining work list from the same column.
LookaheadRule ==
    [][pc = "pick" =>
          LET call == calls[Len(calls)] IN
          IF FitsWithin(ret, width - call.chars_left)
          THEN \/ pc' = "pick" /\ EndsWith(ret', ret)
               \/ pc' = "done" /\ ~fitted'.panic /\ EndsWith(fitted'.doc, ret)
          ELSE /\ pc' = "fit"
               /\ documents' = call.right_documents
               /\ placed' = call.chars_left]_vars

====
